---- MODULE Spec2Model ----
(***************************************************************************)
(* shared_p<T>: a reference-counted shared pointer (src/shared_p.hpp).     *)
(*                                                                         *)
(* The model follows the header statement by statement.  A handle is a     *)
(* shared_p object (its only field is iControlBlock); a control block is a *)
(* shared_ctrl_block (iObject, iCount, iDeleteFn).  Every call runs on a    *)
(* thread; the two statements that touch the atomic counter (fetch_add in  *)
(* the copy constructor, fetch_sub in the destructor) are steps of their   *)
(* own, so the calls of other threads interleave between a fetch_add and   *)
(* the link that follows it, and between a fetch_sub and the delete that   *)
(* follows it.  A handle is used by one thread at a time: no two calls in  *)
(* progress share a handle.                                                *)
(***************************************************************************)
EXTENDS Integers, FiniteSets, Sequences, TLC

\* ------------------------------------------------------------------ bounds
MaxHandles == 3
MaxBlocks == 2
MaxThreads == 2

\* ------------------------------------------------------------------ values
Blocks == 1..MaxBlocks
\* handles the callers declare, and the one heap handle each make_shared call allocates
UserHandles == 1..MaxHandles
ShareHandle(b) == MaxHandles + b
Handles == 1..(MaxHandles + MaxBlocks)
\* one heap object per caller pointer variable; object o is first held by variable o
Objects == 1..MaxBlocks
PtrVars == 1..MaxBlocks

Null == 0                      \* nullptr, as a control-block or object pointer
Wild == -1                     \* an indeterminate pointer that is no control block
NullFn == "nullptr"            \* no custom deleter
DeleteFns == {NullFn, "deleteFn"}
\* what a managed object holds: new int(5), and what callers write through a reference
InitialValue == "five"
Values == {"five", "six"}
Freed == "freed"               \* the object was deleted and holds nothing

VARIABLES
    iControlBlock,   \* [Handles -> Blocks \cup {Null, Wild}]  shared_p::iControlBlock
    hState,          \* [Handles -> "unborn" | "constructing" | "live" | "destroying" | "dead"]
    leaked,          \* the heap handles of make_shared ("share"), which nothing ever deletes
    heap,            \* [Blocks -> [state, iObject, iCount, iDeleteFn]]
    ptrVar,          \* [PtrVars -> Objects \cup {Null}]  the callers' T* variables
    objDeleted,      \* [Objects -> Nat]  times "delete iObject" freed the object
    calls,           \* the copy constructors and destructors in progress, one thread each
    halted,          \* the process was killed by a fault
    faults,          \* the invalid memory accesses performed so far
    teardowns,       \* [Blocks -> the runs of ~shared_ctrl_block on the block, in order]
    sawOne,          \* [Blocks -> the handles whose fetch_sub on the block returned 1]
    selfBuilt,       \* handles built by a constructor whose argument was the handle itself
    lineage,         \* [Handles -> the block of the make_shared call the handle descends from]
    objValue         \* [Objects -> the value stored in the managed object]

vars == <<iControlBlock, hState, leaked, heap, ptrVar, objDeleted, calls,
          halted, faults, teardowns, sawOne, selfBuilt, lineage, objValue>>

FreeBlock == [state |-> "free", iObject |-> Null, iCount |-> 0, iDeleteFn |-> NullFn]

Init ==
    /\ iControlBlock = [h \in Handles |-> Null]
    /\ hState = [h \in Handles |-> "unborn"]
    /\ leaked = {}
    /\ heap = [b \in Blocks |-> FreeBlock]
    /\ ptrVar = [p \in PtrVars |-> p]
    /\ objDeleted = [o \in Objects |-> 0]
    /\ calls = {}
    /\ halted = FALSE
    /\ faults = {}
    /\ teardowns = [b \in Blocks |-> <<>>]
    /\ sawOne = [b \in Blocks |-> {}]
    /\ selfBuilt = {}
    /\ lineage = [h \in Handles |-> Null]
    /\ objValue = [o \in Objects |-> InitialValue]

\* ------------------------------------------------------------------ allocation
\* storage for a new object is the lowest unused slot
FreshHandle(h) ==
    /\ h \in UserHandles
    /\ hState[h] = "unborn"
    /\ \A k \in 1..(h - 1) : hState[k] # "unborn"
FreshBlock(b) == heap[b].state = "free" /\ \A k \in 1..(b - 1) : heap[k].state # "free"

Owning(h) == hState[h] = "live" /\ iControlBlock[h] \in Blocks

CopyCall(src, dst) == [op |-> "copy", h |-> dst, src |-> src, previous |-> 0]
DtorCall(h, previous) == [op |-> "dtor", h |-> h, src |-> 0, previous |-> previous]

\* a thread is free to start a call
ThreadFree == ~halted /\ Cardinality(calls) < MaxThreads

\* a live handle a thread may pass to a call: no call in progress is using it
Usable(h) ==
    /\ ThreadFree
    /\ hState[h] = "live"
    /\ h \notin leaked
    /\ \A c \in calls : c.src # h

\* ------------------------------------------------------------------ shared_ctrl_block
\* a control block that does not keep the deleter it was given
shared_ctrl_block_ctor_noDeleter(aData, aDeleteFn) ==
    [state |-> "live", iObject |-> aData, iCount |-> 1, iDeleteFn |-> NullFn]

\* a control block whose count starts at 0
shared_ctrl_block_ctor_zero(aData, aDeleteFn) ==
    [state |-> "live", iObject |-> aData, iCount |-> 0, iDeleteFn |-> aDeleteFn]

\* shared_ctrl_block(C* aData, void(*aDeleteFn)(C*)) : iObject(aData), iCount(1), iDeleteFn(aDeleteFn)
shared_ctrl_block_ctor(aData, aDeleteFn) ==
    [state |-> "live", iObject |-> aData, iCount |-> 1, iDeleteFn |-> aDeleteFn]

\* a teardown that deletes the object after the deleter ran
TeardownRoutines_both(blk) ==
    IF blk.iDeleteFn # NullFn THEN {"deleter", "delete"} ELSE {"delete"}

\* ~shared_ctrl_block: if (iDeleteFn) iDeleteFn(iObject); else delete iObject;
TeardownRoutines(blk) ==
    IF blk.iDeleteFn # NullFn THEN {"deleter"} ELSE {"delete"}

\* a destructor that tests the count it wrote, not the count it read
LastOwner_zero(previous) == previous = 0

\* a destructor that deletes the block whatever count it read
LastOwner_always(previous) == previous >= 1

\* ~shared_p: if (previous == 1) delete iControlBlock
LastOwner(previous) == previous = 1

\* std::atomic_int iCount: fetch_add(1) and fetch_sub(1) each read and write the counter
\* in one indivisible step and return the value read
fetch_add(count) == count + 1
\* a decrement whose write is lost
fetch_sub_lost(count) == count
fetch_sub(count) == count - 1

\* ------------------------------------------------------------------ shared_p
\* a move constructor that forgets to clear its argument
MoveLinks_keepsSource(cbs, src, dst) == [cbs EXCEPT ![dst] = cbs[src]]

\* shared_p(shared_p&& aOther): iControlBlock = aOther.iControlBlock; aOther.iControlBlock = nullptr
MoveLinks(cbs, src, dst) == [cbs EXCEPT ![dst] = cbs[src], ![src] = Null]

\* a copy constructor that links before it counts
CopyCtorSteps_linkFirst == <<"link", "fetch_add">>

\* shared_p(const shared_p& aOther): the two statements after the self test, in program order
CopyCtorSteps == <<"fetch_add", "link">>

\* a copy constructor that links without counting
CopyStmtHeap_noCount(stmt, hp, cbs, src) == hp

\* the effect of one statement of the copy constructor on the counters and on the links
CopyStmtHeap(stmt, hp, cbs, src) ==
    IF stmt = "fetch_add" THEN [hp EXCEPT ![cbs[src]].iCount = fetch_add(@)] ELSE hp
\* a copy constructor that takes the block away from its argument
CopyStmtLinks_emptiesSource(stmt, cbs, src, dst) ==
    IF stmt = "link" THEN [cbs EXCEPT ![dst] = cbs[src], ![src] = Null] ELSE cbs
CopyStmtLinks(stmt, cbs, src, dst) ==
    IF stmt = "link" THEN [cbs EXCEPT ![dst] = cbs[src]] ELSE cbs

\* an access through a pointer to a block that was already deleted
Stale(b) == IF heap[b].state = "deleted" THEN {"use_after_free"} ELSE {}

\* make_shared(T*&& aOther, void(*aDeleteFn)(T*)), and make_shared(T*&& aOther) with aDeleteFn = nullptr:
\*   data = aOther; aOther = nullptr; share = new shared_p(data, aDeleteFn); return std::move(*share)
make_shared(p, aDeleteFn, b, ret) ==
    /\ ThreadFree
    /\ FreshBlock(b)
    /\ FreshHandle(ret)
    /\ LET share == ShareHandle(b)
           data == ptrVar[p]
           built == [iControlBlock EXCEPT ![share] = b]
       IN  /\ ptrVar' = [ptrVar EXCEPT ![p] = Null]
           /\ heap' = [heap EXCEPT ![b] = shared_ctrl_block_ctor(data, aDeleteFn)]
           /\ iControlBlock' = MoveLinks(built, share, ret)
           /\ hState' = [hState EXCEPT ![share] = "live", ![ret] = "live"]
           /\ leaked' = leaked \cup {share}
    /\ UNCHANGED <<objDeleted, calls, halted, faults, teardowns, sawOne, selfBuilt>>
    /\ lineage' = [lineage EXCEPT ![ShareHandle(b)] = b, ![ret] = b]
    /\ UNCHANGED objValue

\* shared_p(const shared_p& aOther) with &aOther != this, up to and including its first statement
CopyBegin(src, dst) ==
    /\ Usable(src)
    /\ iControlBlock[src] \in Blocks
    /\ FreshHandle(dst)
    /\ heap' = CopyStmtHeap(CopyCtorSteps[1], heap, iControlBlock, src)
    /\ iControlBlock' = CopyStmtLinks(CopyCtorSteps[1], iControlBlock, src, dst)
    /\ hState' = [hState EXCEPT ![dst] = "constructing"]
    /\ calls' = calls \cup {CopyCall(src, dst)}
    /\ faults' = faults \cup Stale(iControlBlock[src])
    /\ UNCHANGED <<leaked, ptrVar, objDeleted, halted, teardowns, sawOne, selfBuilt>>
    /\ lineage' = [lineage EXCEPT ![dst] = lineage[src]]
    /\ UNCHANGED objValue

\* the second statement of the copy constructor, and its return
CopyEnd(c) ==
    /\ ~halted
    /\ c \in calls
    /\ c.op = "copy"
    /\ heap' = CopyStmtHeap(CopyCtorSteps[2], heap, iControlBlock, c.src)
    /\ iControlBlock' = CopyStmtLinks(CopyCtorSteps[2], iControlBlock, c.src, c.h)
    /\ hState' = [hState EXCEPT ![c.h] = "live"]
    /\ calls' = calls \ {c}
    /\ UNCHANGED <<leaked, ptrVar, objDeleted, halted, faults, teardowns,
                   sawOne, selfBuilt>>
    /\ UNCHANGED <<lineage, objValue>>

\* shared_p(shared_p&& aOther) with &aOther != this
MoveCtor(src, dst) ==
    /\ Usable(src)
    /\ iControlBlock[src] # Null
    /\ FreshHandle(dst)
    /\ iControlBlock' = MoveLinks(iControlBlock, src, dst)
    /\ hState' = [hState EXCEPT ![dst] = "live"]
    /\ UNCHANGED <<leaked, heap, ptrVar, objDeleted, calls, halted, faults, teardowns,
                   sawOne, selfBuilt>>
    /\ lineage' = [lineage EXCEPT ![dst] = lineage[src]]
    /\ UNCHANGED objValue

\* ~shared_p, first statement: int previous = iControlBlock->iCount.fetch_sub(1)
DtorFetchSub(h) ==
    /\ Usable(h)
    /\ iControlBlock[h] \in Blocks
    /\ LET b == iControlBlock[h]
       IN  /\ heap' = [heap EXCEPT ![b].iCount = fetch_sub(@)]
           /\ calls' = calls \cup {DtorCall(h, heap[b].iCount)}
           /\ faults' = faults \cup Stale(b)
           /\ sawOne' = IF heap[b].iCount = 1
                         THEN [sawOne EXCEPT ![b] = @ \cup {h}]
                         ELSE sawOne
    /\ hState' = [hState EXCEPT ![h] = "destroying"]
    /\ UNCHANGED <<iControlBlock, leaked, ptrVar, objDeleted, halted,
                   teardowns, selfBuilt>>
    /\ UNCHANGED <<lineage, objValue>>

\* ~shared_p, the rest: if (previous == 1) { delete iControlBlock; iControlBlock = nullptr; }
\* with ~shared_ctrl_block inlined: the deleter or delete iObject; iObject = nullptr
DtorFinish(c) ==
    /\ ~halted
    /\ c \in calls
    /\ c.op = "dtor"
    /\ LET h == c.h
           b == iControlBlock[h]
           blk == heap[b]
           run == IF LastOwner(c.previous) THEN TeardownRoutines(blk) ELSE {}
       IN  /\ teardowns' = IF LastOwner(c.previous)
                            THEN [teardowns EXCEPT ![b] =
                                     Append(@, [by |-> h, run |-> run, arg |-> blk.iObject])]
                            ELSE teardowns
           /\ objDeleted' = IF "delete" \in run /\ blk.iObject # Null
                            THEN [objDeleted EXCEPT ![blk.iObject] = @ + 1]
                            ELSE objDeleted
           /\ heap' = IF LastOwner(c.previous)
                      THEN [heap EXCEPT ![b].state = "deleted", ![b].iObject = Null]
                      ELSE heap
           /\ iControlBlock' = IF LastOwner(c.previous)
                               THEN [iControlBlock EXCEPT ![h] = Null]
                               ELSE iControlBlock
           /\ faults' = faults \cup (IF LastOwner(c.previous) /\ blk.state = "deleted"
                                     THEN {"double_delete"} ELSE {})
           /\ objValue' = IF "delete" \in run /\ blk.iObject # Null
                          THEN [objValue EXCEPT ![blk.iObject] = Freed]
                          ELSE objValue
           /\ hState' = [hState EXCEPT ![h] = "dead"]
    /\ calls' = calls \ {c}
    /\ UNCHANGED <<leaked, ptrVar, halted, sawOne, selfBuilt, lineage>>

\* ~shared_p of a handle whose iControlBlock is no control block (nullptr after a move):
\* the destructor has no test for it, and fetch_sub goes through the pointer all the same.
\* Either the access is trapped and the process dies, or it lands on memory that is no
\* control block and the destructor returns.
DtorNoBlock(h) ==
    /\ Usable(h)
    /\ iControlBlock[h] \notin Blocks
    /\ faults' = faults \cup {IF iControlBlock[h] = Null THEN "null_deref" ELSE "wild_deref"}
    /\ \/ /\ halted' = TRUE
          /\ hState' = [hState EXCEPT ![h] = "destroying"]
       \/ /\ halted' = FALSE
          /\ hState' = [hState EXCEPT ![h] = "dead"]
    /\ UNCHANGED <<iControlBlock, leaked, heap, ptrVar, objDeleted, calls,
                   teardowns, sawOne, selfBuilt>>
    /\ UNCHANGED <<lineage, objValue>>

\* shared_p(const shared_p& aOther) and shared_p(shared_p&& aOther) with &aOther == this:
\* both return before any statement, so iControlBlock is never written and the new handle
\* holds whatever its storage held: nullptr, a pointer to a block made earlier, or
\* anything else.
SelfCtor(dst, garbage) ==
    /\ ThreadFree
    /\ FreshHandle(dst)
    /\ garbage \in {Null, Wild} \cup {b \in Blocks : heap[b].state # "free"}
    /\ iControlBlock' = [iControlBlock EXCEPT ![dst] = garbage]
    /\ hState' = [hState EXCEPT ![dst] = "live"]
    /\ selfBuilt' = selfBuilt \cup {dst}
    /\ UNCHANGED <<leaked, heap, ptrVar, objDeleted, calls, halted, faults, teardowns,
                   sawOne>>
    /\ UNCHANGED <<lineage, objValue>>

\* a conversion that hands every handle an object of its own
operator_T_perHandle(h) == ((h - 1) % MaxBlocks) + 1

\* operator T&(): return *iControlBlock->iObject.  The reference is the object referred to.
operator_T(h) == heap[iControlBlock[h]].iObject

\* get(): return operator T&()
get(h) == operator_T(h)

\* count(): return static_cast<int>(iControlBlock->iCount)
count(h) == heap[iControlBlock[h]].iCount

\* a caller takes a reference to the managed object from handle h, by the conversion
\* (DataFn(s)) or by get(), and writes v through it
WriteThrough(h, accessor, v) ==
    /\ Usable(h)
    /\ iControlBlock[h] \in Blocks
    /\ LET ref == IF accessor = "get" THEN get(h) ELSE operator_T(h)
       IN  /\ ref \in Objects
           /\ v # objValue[ref]          \* writing the value already there changes nothing
           /\ objValue' = [objValue EXCEPT ![ref] = v]
    /\ UNCHANGED <<iControlBlock, hState, leaked, heap, ptrVar, objDeleted, calls,
                   halted, faults, teardowns, sawOne, selfBuilt, lineage>>

\* the calls on handles that descend from make_shared: every constructor is given
\* another handle as its argument
NextLineage ==
    \/ \E p \in PtrVars, fn \in DeleteFns, b \in Blocks, ret \in Handles : make_shared(p, fn, b, ret)
    \/ \E src \in Handles, dst \in Handles : CopyBegin(src, dst)
    \/ \E c \in calls : CopyEnd(c)
    \/ \E src \in Handles, dst \in Handles : MoveCtor(src, dst)
    \/ \E h \in Handles : DtorFetchSub(h)
    \/ \E c \in calls : DtorFinish(c)
    \/ \E h \in Handles : DtorNoBlock(h)

SpecLineage == Init /\ [][NextLineage]_vars

\* the same calls, and writes through the references the accessors return
NextAccess ==
    \/ NextLineage
    \/ \E h \in Handles, accessor \in {"get", "operator T&"}, v \in Values :
          WriteThrough(h, accessor, v)

SpecAccess == Init /\ [][NextAccess]_vars

\* every call the header offers, self-construction included
Next ==
    \/ NextLineage
    \/ \E dst \in Handles, g \in Blocks \cup {Null, Wild} : SelfCtor(dst, g)

Spec == Init /\ [][Next]_vars

\* ------------------------------------------------------------------ types
TypeOK ==
    /\ iControlBlock \in [Handles -> Blocks \cup {Null, Wild}]
    /\ hState \in [Handles -> {"unborn", "constructing", "live", "destroying", "dead"}]
    /\ leaked \subseteq Handles
    /\ \A b \in Blocks :
        /\ heap[b].state \in {"free", "live", "deleted"}
        /\ heap[b].iObject \in Objects \cup {Null}
        /\ heap[b].iCount \in Int
        /\ heap[b].iDeleteFn \in DeleteFns
    /\ ptrVar \in [PtrVars -> Objects \cup {Null}]
    /\ halted \in BOOLEAN
    /\ selfBuilt \subseteq Handles
    /\ lineage \in [Handles -> Blocks \cup {Null}]
    /\ objValue \in [Objects -> Values \cup {Freed}]
    /\ sawOne \in [Blocks -> SUBSET Handles]
    /\ \A b \in Blocks : \A i \in 1..Len(teardowns[b]) :
        /\ teardowns[b][i].by \in Handles
        /\ teardowns[b][i].run \subseteq {"deleter", "delete"}

\* ------------------------------------------------------------------ derived notions
\* the handles that own block b: linked to it, and their destructor has not yet given
\* the ownership up with fetch_sub
Owners(b) == {h \in Handles : hState[h] \in {"constructing", "live"} /\ iControlBlock[h] = b}

\* the destructors in progress on handles of block b
Dying(b) == {c \in calls : c.op = "dtor" /\ iControlBlock[c.h] = b}

\* the object block b was made for
ManagedObject(b) == heap[b].iObject

\* ------------------------------------------------------------------ claims

\* C1: for the handles that descend from one make_shared call by copies, moves and
\* destructions, the teardown of their control block runs at most once; it runs in the
\* destructor of a handle of that block, when no handle owns the block any more; and
\* once every such handle is destroyed it has run exactly once.
C1_TeardownExactlyOnce ==
    [][\A b \in Blocks :
          /\ Len(teardowns'[b]) <= 1
          /\ Len(teardowns'[b]) # Len(teardowns[b]) =>
                /\ Owners(b) = {}
                /\ \E h \in Handles :
                      /\ iControlBlock[h] = b
                      /\ hState[h] = "destroying"
                      /\ hState'[h] = "dead"
                      /\ teardowns'[b] = <<[by |-> h, run |-> TeardownRoutines(heap[b]),
                                           arg |-> heap[b].iObject]>>
          /\ (heap'[b].state # "free" /\ Owners(b)' = {} /\ Dying(b)' = {}) =>
                Len(teardowns'[b]) = 1
      ]_vars

\* C1 witness: a block was torn down once, after a sibling handle had been destroyed
\* without tearing it down
C1_Witness ==
    \E b \in Blocks :
        /\ Len(teardowns[b]) = 1
        /\ Owners(b) = {}
        /\ \E h \in UserHandles : hState[h] = "dead" /\ iControlBlock[h] = b

\* C2: while a handle owns a control block, the block exists and its object has been
\* destroyed neither by the deleter nor by delete.
C2_NoPrematureDestruction ==
    \A b \in Blocks :
        Owners(b) # {} =>
            /\ heap[b].state = "live"
            /\ teardowns[b] = <<>>
            /\ ManagedObject(b) \in Objects => objDeleted[ManagedObject(b)] = 0

\* C2 witness: s was copied into t and t was destroyed; s still owns the block (count 1)
C2_Witness ==
    \E b \in Blocks, s \in UserHandles, t \in UserHandles :
        /\ Owners(b) = {s}
        /\ hState[t] = "dead"
        /\ iControlBlock[t] = b
        /\ heap[b].iCount = 1
        /\ ManagedObject(b) \in Objects

\* C3: the destructor of a handle whose iControlBlock is nullptr does nothing: it goes
\* through no pointer, changes no control block, and returns.
C3_DestroyEmptyIsNoOp ==
    [][\A h \in Handles :
          (hState[h] = "live" /\ iControlBlock[h] = Null /\ hState'[h] # "live") =>
              /\ hState'[h] = "dead"
              /\ ~halted'
              /\ faults' = faults
              /\ heap' = heap
              /\ teardowns' = teardowns
      ]_vars

\* C4: move construction from an owning handle changes no count and tears nothing down;
\* afterwards the new handle holds the source's control block and the source holds nullptr.
C4_MoveKeepsCount ==
    [][\A src \in Handles, dst \in Handles :
          (MoveCtor(src, dst) /\ iControlBlock[src] \in Blocks) =>
              /\ heap' = heap
              /\ teardowns' = teardowns
              /\ objDeleted' = objDeleted
              /\ iControlBlock'[dst] = iControlBlock[src]
              /\ hState'[dst] = "live"
              /\ iControlBlock'[src] = Null
              /\ hState'[src] = "live"
              /\ \A k \in Handles \ {src, dst} : iControlBlock'[k] = iControlBlock[k]
      ]_vars

\* C4 witness: a moved-from handle (live, nullptr) beside the handle that took its block
C4_Witness ==
    \E src \in UserHandles, dst \in UserHandles :
        /\ hState[src] = "live"
        /\ iControlBlock[src] = Null
        /\ Owning(dst)
        /\ dst > src
        /\ heap[iControlBlock[dst]].iCount = 1
        /\ Owners(iControlBlock[dst]) = {dst}

\* C5: constructing a handle from itself changes no count, and the later destruction of
\* that handle, which was never linked to a control block, neither decrements nor tears
\* down any control block.
C5_SelfConstructionIsNoOp ==
    [][/\ \A dst \in Handles, g \in Blocks \cup {Null, Wild} :
             SelfCtor(dst, g) => (heap' = heap /\ teardowns' = teardowns)
       /\ \A h \in selfBuilt :
             (hState[h] = "live" /\ hState'[h] # "live") =>
                 (heap' = heap /\ teardowns' = teardowns)
      ]_vars

\* C6: make_shared on a non-null pointer sets the caller's pointer to nullptr and returns
\* an owning handle on a new control block that holds the pointer's former value, the
\* given deleter (or none) and the count 1.
C6_MakeSharedFreshBlock ==
    [][\A p \in PtrVars, fn \in DeleteFns, b \in Blocks, ret \in Handles :
          (make_shared(p, fn, b, ret) /\ ptrVar[p] # Null) =>
              /\ ptrVar'[p] = Null
              /\ heap[b].state = "free"
              /\ hState[ret] = "unborn"
              /\ heap'[b] = [state |-> "live", iObject |-> ptrVar[p], iCount |-> 1,
                             iDeleteFn |-> fn]
              /\ hState'[ret] = "live"
              /\ iControlBlock'[ret] = b
              /\ Owners(b)' = {ret}
              /\ \A k \in Blocks \ {b} : heap'[k] = heap[k]
      ]_vars

\* C6 witness: make_shared was called with a deleter and with none; both pointers are
\* nullptr and each block holds its object with the count 1
C6_Witness ==
    /\ \A p \in PtrVars : ptrVar[p] = Null
    /\ \E b \in Blocks : heap[b].iDeleteFn # NullFn /\ heap[b].iObject \in Objects
    /\ \E b \in Blocks : heap[b].iDeleteFn = NullFn /\ heap[b].iObject \in Objects
    /\ \A b \in Blocks : heap[b].iCount = 1 /\ Cardinality(Owners(b)) = 1

\* C7: the teardown of a control block runs one routine: the deleter, once, on the managed
\* object, and then no delete of the object, when a deleter was given; delete of the
\* object, and no deleter, when none was given.
C7_OneTeardownRoutine ==
    [][\A b \in Blocks :
          (heap[b].state = "live" /\ heap'[b].state = "deleted") =>
              LET blk == heap[b]
                  log == teardowns'[b][Len(teardowns'[b])]
              IN  /\ Len(teardowns'[b]) = Len(teardowns[b]) + 1
                  /\ log.arg = blk.iObject
                  /\ blk.iDeleteFn # NullFn =>
                        /\ log.run = {"deleter"}
                        /\ objDeleted' = objDeleted
                  /\ blk.iDeleteFn = NullFn =>
                        /\ log.run = {"delete"}
                        /\ blk.iObject # Null =>
                              objDeleted' = [objDeleted EXCEPT ![blk.iObject] = @ + 1]
      ]_vars

\* C7 witness: one block was torn down by its deleter and its object was not deleted,
\* another by delete
C7_Witness ==
    /\ \E b \in Blocks :
          /\ heap[b].state = "deleted"
          /\ heap[b].iDeleteFn # NullFn
          /\ Len(teardowns[b]) = 1
          /\ teardowns[b][1].arg \in Objects
          /\ objDeleted[teardowns[b][1].arg] = 0
    /\ \E b \in Blocks :
          /\ heap[b].state = "deleted"
          /\ heap[b].iDeleteFn = NullFn
          /\ Len(teardowns[b]) = 1
          /\ teardowns[b][1].arg \in Objects
          /\ objDeleted[teardowns[b][1].arg] = 1

\* C8: copy construction from an owning handle first adds 1 to the block's count and
\* then links the new handle to the same block, leaving the source as it was; while a
\* copy is between its two statements the count is already raised and the new handle is
\* not yet linked.
C8_CopyCountsThenLinks ==
    [][/\ \A src \in Handles, dst \in Handles :
             CopyBegin(src, dst) =>
                 LET b == iControlBlock[src]
                 IN  /\ heap'[b].iCount = heap[b].iCount + 1
                     /\ iControlBlock' = iControlBlock
                     /\ iControlBlock[dst] \notin Blocks
       /\ \A c \in calls :
             CopyEnd(c) =>
                 /\ heap' = heap
                 /\ iControlBlock'[c.h] = iControlBlock[c.src]
                 /\ Owning(c.h)'
                 /\ Owning(c.src)'
                 /\ \A k \in Handles \ {c.h} : iControlBlock'[k] = iControlBlock[k]
       /\ \A c \in calls' :
             c.op = "copy" => (iControlBlock'[c.h] \notin Blocks /\ Owning(c.src)')
      ]_vars

\* C8 witness: a copy is between its two statements, with the count at 2 and the new
\* handle not linked
C8_Witness ==
    \E c \in calls :
        /\ c.op = "copy"
        /\ heap[iControlBlock[c.src]].iCount = 2
        /\ Owners(iControlBlock[c.src]) = {c.src}
        /\ iControlBlock[c.h] = Null

\* C9: with the destructors of several threads interleaved on one control block, at most
\* one fetch_sub returns 1, only the destructor that read 1 deletes the block, the block
\* is deleted at most once, and once every handle of the block is destroyed it has been
\* deleted.
C9_OneFinalDecrement ==
    \A b \in Blocks :
        /\ Cardinality(sawOne[b]) <= 1
        /\ Len(teardowns[b]) <= 1
        /\ \A i \in 1..Len(teardowns[b]) : teardowns[b][i].by \in sawOne[b]
        /\ heap[b].state = "deleted" <=> Len(teardowns[b]) = 1
        /\ (heap[b].state # "free" /\ Owners(b) = {} /\ Dying(b) = {}) =>
              (Cardinality(sawOne[b]) = 1 /\ heap[b].state = "deleted")

\* C9 witness: two destructors are in progress at once on handles of one block; one read
\* 2 and the other read 1
C9_Witness ==
    \E c \in calls, d \in calls :
        /\ c.op = "dtor" /\ d.op = "dtor"
        /\ iControlBlock[c.h] = iControlBlock[d.h]
        /\ iControlBlock[c.h] \in Blocks
        /\ c.previous = 2
        /\ d.previous = 1

\* C10: a count that has reached 0 is never raised again: when a fetch_sub has returned
\* 1, no handle owns the block, no copy onto the block is in progress, and the count
\* stays 0.
C10_NoReincrement ==
    [][\A b \in Blocks :
          /\ (heap'[b].state # "free" /\ (heap'[b].iCount = 0 \/ sawOne'[b] # {})) =>
                /\ heap'[b].iCount = 0
                /\ Owners(b)' = {}
                /\ ~ \E c \in calls' : c.op = "copy" /\ iControlBlock'[c.src] = b
          /\ (heap[b].state # "free" /\ heap[b].iCount = 0) => heap'[b].iCount = 0
      ]_vars

\* C10 witness: a destructor read 1 and has not yet deleted the block, after a copy of
\* the handle had been made and destroyed
C10_Witness ==
    \E c \in calls :
        /\ c.op = "dtor"
        /\ c.previous = 1
        /\ heap[iControlBlock[c.h]].state = "live"
        /\ heap[iControlBlock[c.h]].iCount = 0
        /\ \E t \in UserHandles : hState[t] = "dead" /\ iControlBlock[t] = iControlBlock[c.h]

\* ------------------------------------------------------------------ claims, continued
\* the handles callers declared that descend from the make_shared call that made block b:
\* its result, the copies, the move destinations and the moved-from sources
LineageOf(b) == {h \in UserHandles : lineage[h] = b}

\* C11: no leak: once every handle that descends from a make_shared call (its result,
\* copies, move destinations, moved-from sources) has been destroyed, the control block
\* has been deleted and its object handed to the deleter or deleted.
C11_NoLeak ==
    \A b \in Blocks :
        (heap[b].state # "free" /\ \A h \in LineageOf(b) : hState[h] = "dead") =>
            /\ heap[b].state = "deleted"
            /\ Len(teardowns[b]) = 1
            /\ teardowns[b][1].run # {}
            /\ ("delete" \in teardowns[b][1].run /\ teardowns[b][1].arg \in Objects) =>
                  objDeleted[teardowns[b][1].arg] = 1

\* C11 witness: the result of make_shared, a copy and a move destination were all
\* destroyed, the moved-from source among them, and the block is deleted
C11_Witness ==
    \E b \in Blocks :
        /\ heap[b].state = "deleted"
        /\ Cardinality(LineageOf(b)) = 3
        /\ \A h \in LineageOf(b) : hState[h] = "dead"
        /\ "null_deref" \in faults
        /\ ~halted

\* C12: the count of an existing control block is never negative; it is at least 1 until
\* a fetch_sub has returned 1; it is 0 exactly between that fetch_sub and the delete of
\* the block.
C12_CountAtLeastOne ==
    \A b \in Blocks :
        heap[b].state = "live" =>
            /\ heap[b].iCount >= 0
            /\ sawOne[b] = {} => heap[b].iCount >= 1
            /\ heap[b].iCount = 0 <=>
                  \E c \in calls : c.op = "dtor" /\ iControlBlock[c.h] = b /\ c.previous = 1

\* C12 witness: the count of a live block is 0 while the destructor that read 1 has not
\* yet deleted it, and another destructor that read 2 is still in progress
C12_Witness ==
    \E b \in Blocks :
        /\ heap[b].state = "live"
        /\ heap[b].iCount = 0
        /\ \E c \in Dying(b) : c.previous = 2

\* C13: operator T& and get() on any owning handle of one control block give the same
\* object, so a value written through the reference taken from one handle is read through
\* every sibling by either accessor; taking the reference and writing through it changes
\* no count, no link and no control block.
C13_AccessorsShareObject ==
    [][\A h \in Handles, accessor \in {"get", "operator T&"}, v \in Values :
          (objValue' # objValue /\ WriteThrough(h, accessor, v)) =>
              /\ \A k \in Handles :
                    (Owning(k) /\ iControlBlock[k] = iControlBlock[h]) =>
                        /\ objValue'[get(k)] = v
                        /\ objValue'[operator_T(k)] = v
              /\ \A o \in Objects \ {heap[iControlBlock[h]].iObject} :
                    objValue'[o] = objValue[o]
              /\ heap' = heap
              /\ iControlBlock' = iControlBlock
              /\ hState' = hState
              /\ teardowns' = teardowns
      ]_vars

\* C13 witness: two owning handles of one block, whose object holds a written value
C13_Witness ==
    \E h \in UserHandles, k \in UserHandles :
        /\ h # k
        /\ Owning(h) /\ Owning(k)
        /\ iControlBlock[h] = iControlBlock[k]
        /\ get(k) \in Objects
        /\ objValue[get(k)] = "six"

\* C14: when no call is in progress (single-threaded use), count() on an owning handle is
\* the number of owning handles that reference the same control block.
C14_CountIsOwners ==
    calls = {} =>
        \A h \in Handles :
            Owning(h) =>
                count(h) = Cardinality({k \in Handles : Owning(k) /\ iControlBlock[k] = iControlBlock[h]})

\* C14 witness: count() is 2 on a handle left after copies, a move and a destruction
C14_Witness ==
    /\ calls = {}
    /\ \E h \in UserHandles :
          /\ Owning(h)
          /\ count(h) = 2
          /\ \E k \in UserHandles : hState[k] = "dead" /\ lineage[k] = iControlBlock[h]

\* C15: a handle's iControlBlock is set to a control block only while the handle is
\* constructed; a live owning handle never comes to reference another block; and a live
\* handle loses its block only as the argument of a move construction.
C15_HandleStateMachine ==
    [][\A h \in Handles :
          /\ (iControlBlock'[h] \in Blocks /\ iControlBlock'[h] # iControlBlock[h]) =>
                (hState[h] \in {"unborn", "constructing"} /\ hState'[h] = "live")
          /\ (hState[h] = "live" /\ hState'[h] = "live" /\ iControlBlock'[h] # iControlBlock[h]) =>
                /\ iControlBlock'[h] = Null
                /\ \E dst \in Handles : MoveCtor(h, dst)
      ]_vars

\* C15 witness: a handle that was moved from, beside a copy and its source that kept
\* their block
C15_Witness ==
    \E h \in UserHandles, k \in UserHandles, m \in UserHandles :
        /\ hState[h] = "live" /\ iControlBlock[h] = Null /\ lineage[h] \in Blocks
        /\ Owning(k) /\ Owning(m) /\ k # m
        /\ iControlBlock[k] = lineage[h]
        /\ iControlBlock[m] = lineage[h]

\* C16: a control block made from a non-null pointer holds that pointer and the deleter
\* it was given from its creation until its teardown: no step that leaves the block in
\* existence changes iObject or iDeleteFn.
C16_ObjectAndDeleterStable ==
    [][\A b \in Blocks :
          /\ \A p \in PtrVars, fn \in DeleteFns, ret \in Handles :
                (make_shared(p, fn, b, ret) /\ ptrVar[p] # Null) =>
                    (heap'[b].iObject = ptrVar[p] /\ heap'[b].iObject # Null
                        /\ heap'[b].iDeleteFn = fn)
          /\ (heap[b].state = "live" /\ heap'[b].state = "live") =>
                (heap'[b].iObject = heap[b].iObject /\ heap'[b].iDeleteFn = heap[b].iDeleteFn)
      ]_vars

\* C16 witness: a block made with a deleter still holds its object and its deleter after
\* a copy, a move and a destruction that was not the last
C16_Witness ==
    \E b \in Blocks :
        /\ heap[b].state = "live"
        /\ heap[b].iObject \in Objects
        /\ heap[b].iDeleteFn # NullFn
        /\ heap[b].iCount = 1
        /\ \E h \in LineageOf(b) : hState[h] = "dead"
        /\ \E h \in LineageOf(b) : hState[h] = "live" /\ iControlBlock[h] = Null

\* C17: at every step of every interleaving the count of a control block is the number
\* of handles linked to it whose destructor has not yet done its fetch_sub, plus the
\* number of copy constructions that have done fetch_add and not yet linked.
C17_CountEquation ==
    \A b \in Blocks :
        heap[b].state # "free" =>
            heap[b].iCount =
                Cardinality(Owners(b))
                + Cardinality({c \in calls : c.op = "copy" /\ iControlBlock[c.src] = b
                                             /\ iControlBlock[c.h] # b})

\* C17 witness: on one block a copy has counted and not yet linked while a destructor
\* has decremented and not yet returned
C17_Witness ==
    \E c \in calls, d \in calls :
        /\ c.op = "copy" /\ d.op = "dtor"
        /\ iControlBlock[c.src] \in Blocks
        /\ iControlBlock[d.h] = iControlBlock[c.src]
        /\ iControlBlock[c.h] = Null
        /\ heap[iControlBlock[c.src]].iCount = 2

\* C18: every live handle whose iControlBlock is not nullptr points to a control block
\* that has not been deleted.
C18_NoDanglingHandle ==
    \A h \in Handles :
        (hState[h] = "live" /\ iControlBlock[h] # Null) =>
            (iControlBlock[h] \in Blocks /\ heap[iControlBlock[h]].state = "live")

\* C19: a make_shared call makes one control block and two handles, the heap handle and
\* the returned handle moved from it; on return the returned handle alone owns the block,
\* with count 1; the heap handle holds nullptr, and its destructor never runs.
C19_MakeSharedTwoHandles ==
    [][/\ \A p \in PtrVars, fn \in DeleteFns, b \in Blocks, ret \in Handles :
             make_shared(p, fn, b, ret) =>
                 /\ {k \in Blocks : heap'[k] # heap[k]} = {b}
                 /\ {h \in Handles : hState'[h] # hState[h]} = {ret, ShareHandle(b)}
                 /\ hState[ret] = "unborn" /\ hState[ShareHandle(b)] = "unborn"
                 /\ hState'[ret] = "live" /\ hState'[ShareHandle(b)] = "live"
                 /\ Owners(b)' = {ret}
                 /\ heap'[b].iCount = 1
                 /\ iControlBlock'[ShareHandle(b)] = Null
       /\ \A h \in leaked' :
             /\ hState'[h] = "live"
             /\ iControlBlock'[h] = Null
             /\ \A c \in calls' : c.h # h /\ c.src # h
      ]_vars

\* C19 witness: after make_shared and the destruction of every handle the callers
\* declared, the heap handle of the call is still there, live and empty
C19_Witness ==
    \E b \in Blocks :
        /\ heap[b].state = "deleted"
        /\ ShareHandle(b) \in leaked
        /\ hState[ShareHandle(b)] = "live"
        /\ iControlBlock[ShareHandle(b)] = Null
        /\ \A h \in LineageOf(b) : hState[h] = "dead"

====
